---- MODULE Spec2Model ----
(***************************************************************************)
(* Model of the real-time DSP signal-hygiene pipeline of                   *)
(* scripts/pieeg_ws_bridge_dsp.py: the filter stages (DCBlocker,           *)
(* IIRFilter, NotchFilterBank, ArtifactRejector, CommonAverageReference,   *)
(* ExponentialSmoother) and the orchestrator DSPPipeline.                  *)
(*                                                                         *)
(* Numbers.  The code computes in float64.  The model computes in          *)
(* fixed-point integers: a channel value v stands for v/256 microvolts,    *)
(* and a coefficient is a pair <<num, den>>.  A product is rounded down    *)
(* (Mul).  The coefficients used (1/2) and the inputs used (multiples of   *)
(* 128) keep the first calls exact, as they are in float64.  The two       *)
(* notch designs for 60 Hz mains at 250 Hz have irrational coefficients;   *)
(* they are given rounded to 1/4096.                                       *)
(*                                                                         *)
(* Vectors are functions over the channel indices 0..N-1, as numpy arrays  *)
(* are indexed.                                                            *)
(***************************************************************************)
EXTENDS Integers, Sequences, FiniteSets, TLC

(***************************************************************************)
(* Bounds of the model.                                                    *)
(***************************************************************************)
\* process calls (rows, for a batch) made on one object in a run
MaxCalls == 3
\* rows of one process_batch call
MaxBatch == 2
\* largest configured blanking_samples / artifact_blanking
MaxBlanking == 1
\* process calls made on a DC blocker that is fed a constant input
MaxSettle == 1003
\* stream tasks created on one bridge in a run
MaxTasks == 2

(***************************************************************************)
(* numpy helpers                                                           *)
(***************************************************************************)
Chan(n) == 0 .. (n - 1)

\* np.zeros(num_channels)
Zeros(n) == [ch \in Chan(n) |-> 0]

\* np.zeros(num_channels, dtype=bool)
NoFlags(n) == [ch \in Chan(n) |-> FALSE]

\* np.abs
Abs(v) == IF v < 0 THEN -v ELSE v

\* coefficient * value, the coefficient a pair <<num, den>>
Mul(c, v) == (c[1] * v) \div c[2]

\* sum of the values of vector v over the index set S
RECURSIVE SumOver(_, _)
SumOver(v, S) ==
    IF S = {} THEN 0
    ELSE LET ch == CHOOSE c \in S : TRUE
         IN  v[ch] + SumOver(v, S \ {ch})

\* None, and the test "x is None" / "not x" the code makes on optional stages
None == [kind |-> "None"]
IsNone(x) == x.kind = "None"

(***************************************************************************)
(* class DCBlocker                                                         *)
(***************************************************************************)
DCBlocker(alpha, num_channels) ==
    [kind |-> "DCBlocker", alpha |-> alpha, num_channels |-> num_channels,
     x_prev |-> Zeros(num_channels), y_prev |-> Zeros(num_channels)]

\* process with the fed-back output taken whole, without the factor alpha
DCBlocker_process_unit_pole(self, sample) ==
    LET y == [ch \in Chan(self.num_channels) |->
                 sample[ch] - self.x_prev[ch] + self.y_prev[ch]]
    IN  [self |-> [self EXCEPT !.x_prev = sample, !.y_prev = y], out |-> y]

\* y = sample - x_prev + alpha * y_prev; returns the object and the output
DCBlocker_process(self, sample) ==
    LET y == [ch \in Chan(self.num_channels) |->
                 sample[ch] - self.x_prev[ch] + Mul(self.alpha, self.y_prev[ch])]
    IN  [self |-> [self EXCEPT !.x_prev = sample, !.y_prev = y], out |-> y]

DCBlocker_reset(self) ==
    [self EXCEPT !.x_prev = [ch \in DOMAIN self.x_prev |-> 0],
                 !.y_prev = [ch \in DOMAIN self.y_prev |-> 0]]

(***************************************************************************)
(* class IIRFilter.  A second-order section is a record                    *)
(* [b |-> <<b0, b1, b2>>, a |-> <<a1, a2>>] of coefficients (a0 = 1); zi   *)
(* holds, per channel and per section, the two delay values.               *)
(***************************************************************************)
\* one section of scipy.signal.sosfilt (direct form II transposed)
Biquad(sec, x, z) ==
    LET y == Mul(sec.b[1], x) + z[1]
    IN  [y |-> y,
         z |-> << Mul(sec.b[2], x) - Mul(sec.a[1], y) + z[2],
                  Mul(sec.b[3], x) - Mul(sec.a[2], y) >>]

\* one sample through sections s .. Len(sos), each fed the previous one's output
RECURSIVE SosCascade(_, _, _, _)
SosCascade(sos, s, x, zi) ==
    IF s > Len(sos) THEN [y |-> x, zi |-> zi]
    ELSE LET r == Biquad(sos[s], x, zi[s])
         IN  SosCascade(sos, s + 1, r.y, [zi EXCEPT ![s] = r.z])

\* scipy.signal.sosfilt(sos, xs, zi=zi): the outputs and the final delay values
RECURSIVE sosfilt(_, _, _)
sosfilt(sos, xs, zi) ==
    IF xs = << >> THEN [out |-> << >>, zi |-> zi]
    ELSE LET r    == SosCascade(sos, 1, Head(xs), zi)
             rest == sosfilt(sos, Tail(xs), r.zi)
         IN  [out |-> <<r.y>> \o rest.out, zi |-> rest.zi]

IIRFilter(sos, num_channels) ==
    [kind |-> "IIRFilter", sos |-> sos, num_channels |-> num_channels,
     zi |-> [ch \in Chan(num_channels) |-> [s \in 1 .. Len(sos) |-> <<0, 0>>]]]

IIRFilter_process(self, sample) ==
    LET r == [ch \in Chan(self.num_channels) |->
                 sosfilt(self.sos, <<sample[ch]>>, self.zi[ch])]
    IN  [self |-> [self EXCEPT !.zi = [ch \in Chan(self.num_channels) |-> r[ch].zi]],
         out  |-> [ch \in Chan(self.num_channels) |-> r[ch].out[1]]]

\* process_batch that filters the batch from zero delay values
IIRFilter_process_batch_fresh_state(self, samples) ==
    LET col(ch) == [i \in 1 .. Len(samples) |-> samples[i][ch]]
        zero    == [s \in 1 .. Len(self.sos) |-> <<0, 0>>]
        r == [ch \in Chan(self.num_channels) |-> sosfilt(self.sos, col(ch), zero)]
    IN  [self |-> [self EXCEPT !.zi = [ch \in Chan(self.num_channels) |-> r[ch].zi]],
         out  |-> [i \in 1 .. Len(samples) |->
                      [ch \in Chan(self.num_channels) |-> r[ch].out[i]]]]

\* samples is a sequence of rows; each channel's column goes through sosfilt whole
IIRFilter_process_batch(self, samples) ==
    LET col(ch) == [i \in 1 .. Len(samples) |-> samples[i][ch]]
        r == [ch \in Chan(self.num_channels) |-> sosfilt(self.sos, col(ch), self.zi[ch])]
    IN  [self |-> [self EXCEPT !.zi = [ch \in Chan(self.num_channels) |-> r[ch].zi]],
         out  |-> [i \in 1 .. Len(samples) |->
                      [ch \in Chan(self.num_channels) |-> r[ch].out[i]]]]

IIRFilter_reset(self) ==
    [self EXCEPT !.zi = [ch \in DOMAIN self.zi |->
                            [s \in DOMAIN self.zi[ch] |-> <<0, 0>>]]]

\* scipy.signal.iirnotch + tf2sos at the designs the model uses: a notch at
\* fs/4 with Q = 1 has gain 1/2 and cos(w0) = 0, so b = (1/2, 0, 1/2), a = (1, 0, 0)
\* For 60 Hz and 120 Hz at fs = 250 with Q = 30 the gain is 1/(1 + tan(w0/2Q))
\* and b = gain*(1, -2cos(w0), 1), a = (1, -2*gain*cos(w0), 2*gain - 1), with
\* w0 = 2*pi*freq/fs.
create_notch(freq, fs, Q, num_channels) ==
    CASE 4 * freq = fs /\ Q = 1 ->
           IIRFilter(<< [b |-> << <<1, 2>>, <<0, 1>>, <<1, 2>> >>,
                         a |-> << <<0, 1>>, <<0, 1>> >>] >>, num_channels)
      [] freq = 60 /\ fs = 250 /\ Q = 30 ->
           IIRFilter(<< [b |-> << <<3996, 4096>>, <<-502, 4096>>, <<3996, 4096>> >>,
                         a |-> << <<-502, 4096>>, <<3895, 4096>> >>] >>, num_channels)
      [] freq = 120 /\ fs = 250 /\ Q = 30 ->
           IIRFilter(<< [b |-> << <<3900, 4096>>, <<7738, 4096>>, <<3900, 4096>> >>,
                         a |-> << <<7738, 4096>>, <<3704, 4096>> >>] >>, num_channels)

\* scipy.signal.butter(order, [low, high], btype='band', output='sos') at the
\* design the model uses: order 1, low = 1/4 and high = 3/4 of Nyquist gives
\* H(z) = (1 - z^-2)/2, so b = (1/2, 0, -1/2), a = (1, 0, 0)
create_bandpass(lowcut, highcut, fs, order, num_channels) ==
    CASE 8 * lowcut = fs /\ 8 * highcut = 3 * fs /\ order = 1 ->
           IIRFilter(<< [b |-> << <<1, 2>>, <<0, 1>>, <<-1, 2>> >>,
                         a |-> << <<0, 1>>, <<0, 1>> >>] >>, num_channels)

\* whether create_bandpass raises: fs / 2 = 0 makes lowcut / nyq a division
\* by zero, and scipy.signal.butter raises ValueError unless the normalised
\* band edges satisfy 0 < low < high < 1 (low = 2*lowcut/fs, high = 2*highcut/fs)
create_bandpass_raises(lowcut, highcut, fs) ==
    \/ fs = 0
    \/ ~(/\ lowcut * fs > 0
         /\ (lowcut - highcut) * fs < 0
         /\ (2 * highcut - fs) * fs < 0)

(***************************************************************************)
(* class NotchFilterBank                                                   *)
(***************************************************************************)
\* the notches below Nyquist, appended highest harmonic first
RECURSIVE BankFilters_descending(_, _, _, _, _, _)
BankFilters_descending(i, fundamental, fs, num_harmonics, Q, num_channels) ==
    IF i > num_harmonics THEN << >>
    ELSE BankFilters_descending(i + 1, fundamental, fs, num_harmonics, Q, num_channels)
         \o (IF 2 * (fundamental * i) < fs
             THEN << create_notch(fundamental * i, fs, Q, num_channels) >>
             ELSE << >>)

\* the notches for harmonics i .. num_harmonics that lie below Nyquist
RECURSIVE BankFilters(_, _, _, _, _, _)
BankFilters(i, fundamental, fs, num_harmonics, Q, num_channels) ==
    IF i > num_harmonics THEN << >>
    ELSE (IF 2 * (fundamental * i) < fs
          THEN << create_notch(fundamental * i, fs, Q, num_channels) >>
          ELSE << >>)
         \o BankFilters(i + 1, fundamental, fs, num_harmonics, Q, num_channels)

NotchFilterBank(fundamental, fs, num_harmonics, Q, num_channels) ==
    [kind |-> "NotchFilterBank",
     filters |-> BankFilters(1, fundamental, fs, num_harmonics, Q, num_channels)]

\* output = sample; for filt in self.filters: output = filt.process(output)
RECURSIVE BankRun(_, _, _)
BankRun(filters, i, output) ==
    IF i > Len(filters) THEN [filters |-> filters, out |-> output]
    ELSE LET r == IIRFilter_process(filters[i], output)
         IN  BankRun([filters EXCEPT ![i] = r.self], i + 1, r.out)

NotchFilterBank_process(self, sample) ==
    LET r == BankRun(self.filters, 1, sample)
    IN  [self |-> [self EXCEPT !.filters = r.filters], out |-> r.out]

NotchFilterBank_reset(self) ==
    [self EXCEPT !.filters = [i \in DOMAIN self.filters |->
                                 IIRFilter_reset(self.filters[i])]]

(***************************************************************************)
(* class ArtifactRejector                                                  *)
(***************************************************************************)
ArtifactRejector(threshold_uv, blanking_samples, num_channels) ==
    [kind |-> "ArtifactRejector", threshold |-> threshold_uv,
     blanking_samples |-> blanking_samples, num_channels |-> num_channels,
     blanking_counter |-> Zeros(num_channels), last_good |-> Zeros(num_channels),
     artifact_count |-> 0, total_samples |-> 0]

\* the branch the loop body takes for channel ch
InBlanking(self, ch) == self.blanking_counter[ch] > 0
NewArtifact(self, sample, ch) ==
    ~InBlanking(self, ch) /\ Abs(sample[ch]) > self.threshold

\* ArtifactRejector.process with one change, given by how:
\*   "short"  a new artifact sets the counter to blanking_samples - 1
\*   "ge"     a sample at the threshold counts as an artifact (>= for >)
\*   "any"    an artifact on any channel counts for every channel
\*   "long"   a new artifact sets the counter to blanking_samples + 1
\*   "pass"   a new artifact is flagged and counted but its sample is returned
\*   "rearm"  a sample above the threshold during the window restarts the
\*            window and is counted
ArtifactRejector_process_with(how, self, sample) ==
    LET C == Chan(self.num_channels)
        above(ch) == CASE how = "ge"  -> Abs(sample[ch]) >= self.threshold
                       [] how = "any" -> \E c \in C : Abs(sample[c]) > self.threshold
                       [] OTHER       -> Abs(sample[ch]) > self.threshold
        blank(ch) == InBlanking(self, ch) /\ ~(how = "rearm" /\ above(ch))
        new(ch)   == ~blank(ch) /\ above(ch)
        window    == IF how = "short" /\ self.blanking_samples > 0
                     THEN self.blanking_samples - 1
                     ELSE IF how = "long" THEN self.blanking_samples + 1
                     ELSE self.blanking_samples
        flags   == [ch \in C |-> blank(ch) \/ new(ch)]
        good    == [ch \in C |-> IF flags[ch] THEN self.last_good[ch] ELSE sample[ch]]
        cleaned == [ch \in C |-> IF how = "pass" /\ new(ch) THEN sample[ch] ELSE good[ch]]
        counter == [ch \in C |->
                      IF blank(ch) THEN self.blanking_counter[ch] - 1
                      ELSE IF new(ch) THEN window
                      ELSE self.blanking_counter[ch]]
        found   == Cardinality({ch \in C : new(ch)})
    IN  [self |-> [self EXCEPT !.total_samples = @ + 1,
                               !.blanking_counter = counter,
                               !.last_good = good,
                               !.artifact_count = @ + found],
         out |-> [cleaned |-> cleaned, flags |-> flags]]

ArtifactRejector_process_short(self, sample) ==
    ArtifactRejector_process_with("short", self, sample)

ArtifactRejector_process_ge(self, sample) ==
    ArtifactRejector_process_with("ge", self, sample)

ArtifactRejector_process_any(self, sample) ==
    ArtifactRejector_process_with("any", self, sample)

ArtifactRejector_process_long(self, sample) ==
    ArtifactRejector_process_with("long", self, sample)

ArtifactRejector_process_pass(self, sample) ==
    ArtifactRejector_process_with("pass", self, sample)

ArtifactRejector_process_rearm(self, sample) ==
    ArtifactRejector_process_with("rearm", self, sample)

\* artifact_count += 1 once per channel that takes the new-artifact branch
ArtifactRejector_process(self, sample) ==
    LET C == Chan(self.num_channels)
        flags   == [ch \in C |-> InBlanking(self, ch) \/ NewArtifact(self, sample, ch)]
        cleaned == [ch \in C |-> IF flags[ch] THEN self.last_good[ch] ELSE sample[ch]]
        counter == [ch \in C |->
                      IF InBlanking(self, ch) THEN self.blanking_counter[ch] - 1
                      ELSE IF NewArtifact(self, sample, ch) THEN self.blanking_samples
                      ELSE self.blanking_counter[ch]]
        good    == [ch \in C |-> IF flags[ch] THEN self.last_good[ch] ELSE sample[ch]]
        found   == Cardinality({ch \in C : NewArtifact(self, sample, ch)})
    IN  [self |-> [self EXCEPT !.total_samples = @ + 1,
                               !.blanking_counter = counter,
                               !.last_good = good,
                               !.artifact_count = @ + found],
         out |-> [cleaned |-> cleaned, flags |-> flags]]

\* get_artifact_rate without the factor 100
ArtifactRejector_get_artifact_rate_ratio(self) ==
    IF self.total_samples = 0 THEN <<0, 1>>
    ELSE <<self.artifact_count, self.total_samples>>

\* (artifact_count / total_samples) * 100 as the fraction <<numerator, denominator>>
ArtifactRejector_get_artifact_rate(self) ==
    IF self.total_samples = 0 THEN <<0, 1>>
    ELSE <<self.artifact_count * 100, self.total_samples>>

\* reset that leaves last_good as it is
ArtifactRejector_reset_keeps_good(self) ==
    [self EXCEPT !.blanking_counter = [ch \in DOMAIN self.blanking_counter |-> 0],
                 !.artifact_count = 0,
                 !.total_samples = 0]

ArtifactRejector_reset(self) ==
    [self EXCEPT !.blanking_counter = [ch \in DOMAIN self.blanking_counter |-> 0],
                 !.last_good = [ch \in DOMAIN self.last_good |-> 0],
                 !.artifact_count = 0,
                 !.total_samples = 0]

(***************************************************************************)
(* class CommonAverageReference.  exclude is a set of integers, in range   *)
(* or not.                                                                 *)
(***************************************************************************)
CommonAverageReference(num_channels, exclude_channels) ==
    [kind |-> "CommonAverageReference", num_channels |-> num_channels,
     exclude |-> exclude_channels]

\* process whose average is taken over every channel, excluded or not
CommonAverageReference_process_mean_all(self, sample) ==
    LET all == Chan(self.num_channels)
    IN  [ch \in all |-> sample[ch] - (SumOver(sample, all) \div Cardinality(all))]

\* process that returns zeros when every channel is excluded
CommonAverageReference_process_empty_zero(self, sample) ==
    LET mask == {ch \in Chan(self.num_channels) : ch \notin self.exclude}
    IN  IF mask = {} THEN Zeros(self.num_channels)
        ELSE [ch \in Chan(self.num_channels) |->
                 sample[ch] - (SumOver(sample, mask) \div Cardinality(mask))]

\* process without the range test: mask[ch] = False for every ch of the
\* exclusion set, a negative ch indexing from the end as numpy does
CommonAverageReference_process_wrap(self, sample) ==
    LET mask == {ch \in Chan(self.num_channels) :
                    ch \notin self.exclude /\ (ch - self.num_channels) \notin self.exclude}
    IN  IF mask = {} THEN sample
        ELSE [ch \in Chan(self.num_channels) |->
                 sample[ch] - (SumOver(sample, mask) \div Cardinality(mask))]

\* np.mean(sample[mask]) is the sum over the mask divided by its size
CommonAverageReference_process(self, sample) ==
    LET mask == {ch \in Chan(self.num_channels) : ch \notin self.exclude}
    IN  IF mask = {} THEN sample
        ELSE LET avg == SumOver(sample, mask) \div Cardinality(mask)
             IN  [ch \in Chan(self.num_channels) |-> sample[ch] - avg]

(***************************************************************************)
(* class ExponentialSmoother                                               *)
(***************************************************************************)
ExponentialSmoother(alpha, num_channels) ==
    [kind |-> "ExponentialSmoother", alpha |-> alpha, num_channels |-> num_channels,
     ema |-> Zeros(num_channels), initialized |-> FALSE]

\* (1 - alpha) as a pair
OneMinus(alpha) == <<alpha[2] - alpha[1], alpha[2]>>

\* process that averages with the accumulator on every call, the first included
ExponentialSmoother_process_unseeded(self, sample) ==
    LET e == [ch \in Chan(self.num_channels) |->
                 Mul(self.alpha, sample[ch]) + Mul(OneMinus(self.alpha), self.ema[ch])]
    IN  [self |-> [self EXCEPT !.ema = e, !.initialized = TRUE], out |-> e]

ExponentialSmoother_process(self, sample) ==
    IF ~self.initialized
    THEN [self |-> [self EXCEPT !.ema = sample, !.initialized = TRUE], out |-> sample]
    ELSE LET e == [ch \in Chan(self.num_channels) |->
                      Mul(self.alpha, sample[ch]) + Mul(OneMinus(self.alpha), self.ema[ch])]
         IN  [self |-> [self EXCEPT !.ema = e], out |-> e]

ExponentialSmoother_reset(self) ==
    [self EXCEPT !.ema = [ch \in DOMAIN self.ema |-> 0], !.initialized = FALSE]

(***************************************************************************)
(* class DSPConfig and class DSPPipeline.  The pipeline record keeps the   *)
(* stage objects that the bound methods in self.filters close over;        *)
(* filters is the list of stage names in the order _build_pipeline         *)
(* appended them.                                                          *)
(***************************************************************************)
DSPConfig(n, dc, notch, bandpass, artifact, threshold, blanking, car, exclude, smoothing) ==
    [sample_rate |-> 8, num_channels |-> n,
     dc_block_enabled |-> dc, dc_block_alpha |-> <<1, 2>>,
     notch_enabled |-> notch, notch_freq |-> 2, notch_harmonics |-> 3, notch_q |-> 1,
     bandpass_enabled |-> bandpass, highpass_freq |-> 1, lowpass_freq |-> 3,
     filter_order |-> 1,
     artifact_enabled |-> artifact, artifact_threshold |-> threshold,
     artifact_blanking |-> blanking,
     car_enabled |-> car, car_exclude_channels |-> exclude,
     smoothing_enabled |-> smoothing, smoothing_alpha |-> <<1, 2>>]

\* _build_pipeline with the DC blocker built only when scipy is available
BuildFilters_dc_needs_scipy(cfg, scipy) ==
    (IF scipy /\ cfg.dc_block_enabled THEN <<"DC Block">> ELSE << >>)
    \o (IF scipy /\ cfg.notch_enabled THEN <<"Notch">> ELSE << >>)
    \o (IF scipy /\ cfg.bandpass_enabled THEN <<"Bandpass">> ELSE << >>)
    \o (IF cfg.car_enabled THEN <<"CAR">> ELSE << >>)
    \o (IF cfg.smoothing_enabled THEN <<"Smooth">> ELSE << >>)

\* _build_pipeline: the names appended to self.filters, in the order of the appends
BuildFilters(cfg, scipy) ==
    (IF cfg.dc_block_enabled THEN <<"DC Block">> ELSE << >>)
    \o (IF scipy /\ cfg.notch_enabled THEN <<"Notch">> ELSE << >>)
    \o (IF scipy /\ cfg.bandpass_enabled THEN <<"Bandpass">> ELSE << >>)
    \o (IF cfg.car_enabled THEN <<"CAR">> ELSE << >>)
    \o (IF cfg.smoothing_enabled THEN <<"Smooth">> ELSE << >>)

\* DSPPipeline.__init__ with _build_pipeline; scipy is SCIPY_AVAILABLE
DSPPipeline(cfg, scipy) ==
    [kind |-> "DSPPipeline",
     config |-> cfg,
     filters |-> BuildFilters(cfg, scipy),
     artifact_flags |-> NoFlags(cfg.num_channels),
     dc_blocker |-> IF cfg.dc_block_enabled
                    THEN DCBlocker(cfg.dc_block_alpha, cfg.num_channels) ELSE None,
     notch_bank |-> IF scipy /\ cfg.notch_enabled
                    THEN NotchFilterBank(cfg.notch_freq, cfg.sample_rate,
                                         cfg.notch_harmonics, cfg.notch_q,
                                         cfg.num_channels)
                    ELSE None,
     bandpass |-> IF scipy /\ cfg.bandpass_enabled
                  THEN create_bandpass(cfg.highpass_freq, cfg.lowpass_freq,
                                       cfg.sample_rate, cfg.filter_order,
                                       cfg.num_channels)
                  ELSE None,
     artifact_rejector |-> IF cfg.artifact_enabled
                           THEN ArtifactRejector(cfg.artifact_threshold,
                                                 cfg.artifact_blanking,
                                                 cfg.num_channels)
                           ELSE None,
     car |-> IF cfg.car_enabled
             THEN CommonAverageReference(cfg.num_channels, cfg.car_exclude_channels)
             ELSE None,
     smoother |-> IF cfg.smoothing_enabled
                  THEN ExponentialSmoother(cfg.smoothing_alpha, cfg.num_channels)
                  ELSE None]

\* whether DSPPipeline(cfg) raises: np.zeros(config.num_channels) in __init__
\* raises ValueError for a negative count, and _build_pipeline raises what
\* create_bandpass raises when it calls it; nothing else is validated
DSPPipeline_raises(cfg, scipy) ==
    \/ cfg.num_channels < 0
    \/ /\ scipy /\ cfg.bandpass_enabled
       /\ create_bandpass_raises(cfg.highpass_freq, cfg.lowpass_freq, cfg.sample_rate)

\* the outcome of the statement dsp = DSPPipeline(cfg): the pipeline, or a
\* record of the exception, in which case there is no object to call
Construct(cfg, scipy) ==
    IF DSPPipeline_raises(cfg, scipy) THEN [kind |-> "Raised", config |-> cfg]
    ELSE DSPPipeline(cfg, scipy)

\* a chain that drops each entry of self.filters once it has been called
StageCalled_consumes(self, name, r) ==
    [self |-> [self EXCEPT !.filters = SelectSeq(@, LAMBDA n : n # name)],
     out  |-> r.out]

\* the pipeline once the stage object bound in the filter called name has
\* made the call whose result is r
StageCalled(self, name, r) ==
    [self |-> CASE name = "DC Block" -> [self EXCEPT !.dc_blocker = r.self]
                [] name = "Notch"    -> [self EXCEPT !.notch_bank = r.self]
                [] name = "Bandpass" -> [self EXCEPT !.bandpass = r.self]
                [] name = "CAR"      -> self
                [] name = "Smooth"   -> [self EXCEPT !.smoother = r.self],
     out  |-> r.out]

\* the call filter_fn(output) for the entry of self.filters called name
CallFilter(self, name, output) ==
    StageCalled(self, name,
        CASE name = "DC Block" -> DCBlocker_process(self.dc_blocker, output)
          [] name = "Notch"    -> NotchFilterBank_process(self.notch_bank, output)
          [] name = "Bandpass" -> IIRFilter_process(self.bandpass, output)
          [] name = "CAR"      ->
               [self |-> self.car,
                out  |-> CommonAverageReference_process(self.car, output)]
          [] name = "Smooth"   -> ExponentialSmoother_process(self.smoother, output))

\* for name, filter_fn in self.filters: output = filter_fn(output)
RECURSIVE RunChain(_, _, _)
RunRest(r, i) == RunChain(r.self, i, r.out)
RunChain(self, i, output) ==
    IF i > Len(self.filters) THEN [self |-> self, out |-> output]
    ELSE RunRest(CallFilter(self, self.filters[i], output), i + 1)

\* the rejector branch with a flag that stays set once it has been raised
Rejected_sticky(self, r) ==
    [self |-> [self EXCEPT !.artifact_rejector = r.self,
                           !.artifact_flags =
                               [ch \in DOMAIN r.out.flags |->
                                   self.artifact_flags[ch] \/ r.out.flags[ch]]],
     out  |-> [processed |-> r.out.cleaned,
               flags     |-> [ch \in DOMAIN r.out.flags |->
                                 self.artifact_flags[ch] \/ r.out.flags[ch]]]]

\* output, self.artifact_flags = self.artifact_rejector.process(output), r
\* being what that call returned
Rejected(self, r) ==
    [self |-> [self EXCEPT !.artifact_rejector = r.self,
                           !.artifact_flags = r.out.flags],
     out  |-> [processed |-> r.out.cleaned, flags |-> r.out.flags]]

\* the no-rejector branch with one flag per filter of the chain
Unflagged_per_filter(self, output) ==
    [self |-> [self EXCEPT !.artifact_flags = NoFlags(Len(self.filters))],
     out  |-> [processed |-> output, flags |-> NoFlags(Len(self.filters))]]

\* self.artifact_flags = np.zeros(self.config.num_channels, dtype=bool)
Unflagged(self, output) ==
    [self |-> [self EXCEPT !.artifact_flags = NoFlags(self.config.num_channels)],
     out  |-> [processed |-> output, flags |-> NoFlags(self.config.num_channels)]]

\* the artifact rejector, if there is one, on the output c of the filter chain
Detect(c) ==
    IF ~IsNone(c.self.artifact_rejector)
    THEN Rejected(c.self, ArtifactRejector_process(c.self.artifact_rejector, c.out))
    ELSE Unflagged(c.self, c.out)

\* process with the artifact rejector applied to the raw sample, before the chain
ChainAfter(d) ==
    [self |-> RunChain(d.self, 1, d.out.processed).self,
     out  |-> [processed |-> RunChain(d.self, 1, d.out.processed).out,
               flags     |-> d.out.flags]]

DSPPipeline_process_reject_first(self, sample) ==
    ChainAfter(Detect([self |-> self, out |-> sample]))

\* the filter chain, then the artifact rejector if there is one
DSPPipeline_process(self, sample) == Detect(RunChain(self, 1, sample))

\* for i in range(num_samples): output[i], flags[i] = self.process(samples[i])
RECURSIVE BatchLoop(_, _, _, _, _)
BatchRest(r, samples, i, output, flags) ==
    BatchLoop(r.self, samples, i + 1,
              [output EXCEPT ![i] = r.out.processed],
              [flags EXCEPT ![i] = r.out.flags])
BatchLoop(self, samples, i, output, flags) ==
    IF i > Len(samples)
    THEN [self |-> self, out |-> [processed |-> output, flags |-> flags]]
    ELSE BatchRest(DSPPipeline_process(self, samples[i]), samples, i, output, flags)

\* process_batch that filters every row from the state the batch began in
DSPPipeline_process_batch_rowwise(self, samples) ==
    LET r == [i \in 1 .. Len(samples) |-> DSPPipeline_process(self, samples[i])]
    IN  [self |-> IF samples = << >> THEN self ELSE r[Len(samples)].self,
         out  |-> [processed |-> [i \in 1 .. Len(samples) |-> r[i].out.processed],
                   flags     |-> [i \in 1 .. Len(samples) |-> r[i].out.flags]]]

\* output and flags start as zero arrays of num_samples rows
DSPPipeline_process_batch(self, samples) ==
    BatchLoop(self, samples, 1,
              [i \in 1 .. Len(samples) |-> Zeros(self.config.num_channels)],
              [i \in 1 .. Len(samples) |-> NoFlags(self.config.num_channels)])

\* get_stats that lists the artifact rejector as the last stage of the chain
DSPPipeline_get_stats_counts_rejector(self) ==
    IF ~IsNone(self.artifact_rejector)
    THEN [num_filters |-> Len(self.filters) + 1,
          filter_chain |-> Append(self.filters, "Artifact Rejection"),
          artifact_rate_percent |->
              ArtifactRejector_get_artifact_rate(self.artifact_rejector)]
    ELSE [num_filters |-> Len(self.filters), filter_chain |-> self.filters]

\* the stats dict; artifact_rate_percent only when there is a rejector
DSPPipeline_get_stats(self) ==
    IF ~IsNone(self.artifact_rejector)
    THEN [num_filters |-> Len(self.filters), filter_chain |-> self.filters,
          artifact_rate_percent |->
              ArtifactRejector_get_artifact_rate(self.artifact_rejector)]
    ELSE [num_filters |-> Len(self.filters), filter_chain |-> self.filters]

(***************************************************************************)
(* State.                                                                  *)
(*   SCIPY_AVAILABLE  the module flag set by the import of scipy           *)
(*   dsp              the DSPPipeline under test                           *)
(*   twin             a second DSPPipeline built from the same config,     *)
(*                    which is only ever called through process: once for  *)
(*                    each process call on dsp, and once per row of each   *)
(*                    batch dsp was given                                  *)
(*   queue            the rows of dsp's last batch that twin has not yet   *)
(*                    processed                                            *)
(*   seqOut           what twin's process calls returned for the rows of   *)
(*                    dsp's last batch                                     *)
(*   obj              the stage object under test (StageSpec, PairSpec,    *)
(*                    ConvergeSpec); in BridgeSpec the PiEEGBridgeDSP      *)
(*                    together with the event loop that runs it, dsp       *)
(*                    being its device's pipeline                          *)
(*   fresh            obj as its constructor returned it                   *)
(*   shadow           a second ArtifactRejector with obj's parameters      *)
(*                    (PairSpec)                                           *)
(*   ghost            history of the calls on obj, kept for the claims     *)
(*   op, arg, ret     the last operation called, its argument, its result  *)
(*   calls            rows processed so far                                *)
(***************************************************************************)
VARIABLES SCIPY_AVAILABLE, dsp, twin, queue, seqOut, obj, fresh, shadow, ghost,
          op, arg, ret, calls

vars == <<SCIPY_AVAILABLE, dsp, twin, queue, seqOut, obj, fresh, shadow, ghost,
          op, arg, ret, calls>>

pipeVars  == <<SCIPY_AVAILABLE, dsp, twin, queue, seqOut>>
stageVars == <<obj, fresh, shadow, ghost>>

(***************************************************************************)
(* Inputs.                                                                 *)
(***************************************************************************)
ChannelCounts == {1, 2}

\* channel values fed to the pipeline and to the linear stages
Levels == {-2048, 128}

Samples(n) == [Chan(n) -> Levels]

\* sequences of at most MaxBatch rows
Batches(n) == UNION {[1 .. k -> Samples(n)] : k \in 0 .. MaxBatch}

\* (artifact_threshold, artifact_blanking) of the configs
ThresholdBlanking ==
    {<<128, b>> : b \in 0 .. MaxBlanking} \cup {<<0, 0>>, <<-128, 0>>}

DSPConfigs ==
    {DSPConfig(n, f[1], f[2], f[3], f[4], tb[1], tb[2], f[5], ex, f[6]) :
        n \in ChannelCounts, f \in [1 .. 6 -> BOOLEAN],
        tb \in ThresholdBlanking, ex \in {{}, {0}}}

\* The runs explored.  On one channel, with scipy and nothing excluded: every
\* combination of stage flags.  A run on two channels enables CAR and has both
\* IIR stages or neither; a run without scipy enables both IIR stages and
\* excludes nothing; a run with an exclusion set, or with a threshold and
\* blanking other than (128, 1), has no IIR stage.  The fields of a disabled
\* stage are left at one value.
Setups ==
    {su \in BOOLEAN \X DSPConfigs :
        LET scipy == su[1]
            c     == su[2]
            noIIR == ~c.notch_enabled /\ ~c.bandpass_enabled
            plain == c.artifact_threshold = 128 /\ c.artifact_blanking = 1
        IN  /\ ~c.artifact_enabled =>
                  (c.artifact_threshold = 128 /\ c.artifact_blanking = 0)
            /\ ~c.car_enabled => c.car_exclude_channels = {}
            /\ (c.artifact_enabled /\ ~plain) => (noIIR /\ c.num_channels = 1 /\ scipy)
            /\ c.num_channels = 2 =>
                  (c.car_enabled /\ (c.notch_enabled <=> c.bandpass_enabled))
            /\ ~scipy => (c.notch_enabled /\ c.bandpass_enabled
                          /\ c.car_exclude_channels = {})
            /\ c.car_exclude_channels # {} => noIIR}

(***************************************************************************)
(* Spec: one DSPPipeline, called from one thread.                          *)
(***************************************************************************)
Init ==
    /\ \E su \in Setups :
          /\ SCIPY_AVAILABLE = su[1]
          /\ dsp = DSPPipeline(su[2], SCIPY_AVAILABLE)
          /\ twin = DSPPipeline(su[2], SCIPY_AVAILABLE)
    /\ queue = << >>
    /\ seqOut = << >>
    /\ obj = None /\ fresh = None /\ shadow = None /\ ghost = None
    /\ op = "init" /\ arg = None /\ ret = None
    /\ calls = 0

\* the call on dsp returned r
Returned(r) == dsp' = r.self /\ ret' = r.out

\* the call on twin returned r
TwinReturned(r) == twin' = r.self /\ seqOut' = Append(seqOut, r.out)

\* dsp.process(sample), and the same call on twin
Process(sample) ==
    /\ queue = << >>
    /\ calls < MaxCalls
    /\ Returned(DSPPipeline_process(dsp, sample))
    /\ twin' = DSPPipeline_process(twin, sample).self
    /\ op' = "process" /\ arg' = sample
    /\ calls' = calls + 1
    /\ UNCHANGED <<SCIPY_AVAILABLE, queue, seqOut, stageVars>>

\* dsp.process_batch(samples)
ProcessBatch(samples) ==
    /\ queue = << >>
    /\ calls + Len(samples) <= MaxCalls
    /\ Returned(DSPPipeline_process_batch(dsp, samples))
    /\ queue' = samples
    /\ seqOut' = << >>
    /\ op' = "process_batch" /\ arg' = samples
    /\ calls' = calls + Len(samples)
    /\ UNCHANGED <<SCIPY_AVAILABLE, twin, stageVars>>

\* dsp.get_stats()
GetStats ==
    /\ queue = << >>
    /\ ret' = DSPPipeline_get_stats(dsp)
    /\ op' = "get_stats" /\ arg' = None
    /\ UNCHANGED <<pipeVars, stageVars, calls>>

\* twin.process(row) for the oldest row dsp has taken
TwinProcess ==
    /\ queue # << >>
    /\ TwinReturned(DSPPipeline_process(twin, Head(queue)))
    /\ queue' = Tail(queue)
    /\ UNCHANGED <<SCIPY_AVAILABLE, dsp, stageVars, op, arg, ret, calls>>

Next ==
    \/ \E sample \in Samples(dsp.config.num_channels) : Process(sample)
    \/ \E samples \in Batches(dsp.config.num_channels) : ProcessBatch(samples)
    \/ GetStats
    \/ TwinProcess

Spec == Init /\ [][Next]_vars

(***************************************************************************)
(* BuildSpec: DSPPipeline(cfg) is attempted for configs whose sample rate, *)
(* upper band edge or channel count may be out of range; if it returns a   *)
(* pipeline, the pipeline is then called from one thread.                  *)
(***************************************************************************)
\* (sample_rate, lowpass_freq, num_channels): the values of Spec, then an
\* upper band edge at and above Nyquist, a zero and a negative sample rate,
\* and a zero and a negative channel count
BuildParams ==
    {<<8, 3, 1>>, <<8, 4, 1>>, <<8, 5, 1>>, <<0, 3, 1>>, <<-8, 3, 1>>,
     <<8, 3, 0>>, <<8, 3, -1>>}

BuildConfigs ==
    {[DSPConfig(pr[3], f[1], f[2], f[3], f[4], 128, 1, f[5], {}, f[6])
         EXCEPT !.sample_rate = pr[1], !.lowpass_freq = pr[2]] :
        pr \in BuildParams, f \in [1 .. 6 -> BOOLEAN]}

BuildInit ==
    /\ \E scipy \in BOOLEAN, cfg \in BuildConfigs :
          /\ SCIPY_AVAILABLE = scipy
          /\ dsp = Construct(cfg, scipy)
          /\ twin = Construct(cfg, scipy)
    /\ queue = << >>
    /\ seqOut = << >>
    /\ obj = None /\ fresh = None /\ shadow = None /\ ghost = None
    /\ op = "init" /\ arg = None /\ ret = None
    /\ calls = 0

\* only a constructed pipeline can be called
BuildProcess(sample) == dsp.kind = "DSPPipeline" /\ Process(sample)

BuildGetStats == dsp.kind = "DSPPipeline" /\ GetStats

BuildNext ==
    \/ \E sample \in Samples(dsp.config.num_channels) : BuildProcess(sample)
    \/ BuildGetStats

BuildSpec == BuildInit /\ [][BuildNext]_vars

(***************************************************************************)
(* StageSpec: one stage object on its own, as the unit tests drive it.     *)
(* The object is constructed in Init and then called from one thread.      *)
(***************************************************************************)
\* channel values fed to an ArtifactRejector: below, at and above the threshold
ARLevels == {-384, -256, 0, 128, 256, 384}

\* a notch section followed by a band-pass section
TwoSections ==
    create_notch(2, 8, 1, 1).sos \o create_bandpass(1, 3, 8, 1, 1).sos

\* (fundamental, fs, num_harmonics, Q) of the notch banks built on their own:
\* 60 Hz mains at 250 Hz, and a fundamental of a quarter and of half the
\* sampling rate
BankParams ==
    {<<60, 250, h, 30>> : h \in {1, 2, 4}}
    \cup {<<2, 8, h, 1>> : h \in {0, 1, 3}}
    \cup {<<4, 8, 2, 1>>}

StageObjects ==
    UNION {   {DCBlocker(<<1, 2>>, n)}
         \cup {create_bandpass(1, 3, 8, 1, n), IIRFilter(TwoSections, n)}
         \cup {NotchFilterBank(2, 8, 3, 1, n)}
         \cup {ArtifactRejector(t, b, n) : t \in {0, 256}, b \in 0 .. MaxBlanking}
         \cup {CommonAverageReference(n, ex) : ex \in {{}, {0}, {0, 1}, {-1, 2}, {1, 5}}}
         \cup {ExponentialSmoother(<<1, 2>>, n)}
         : n \in ChannelCounts}
    \cup {CommonAverageReference(3, ex) : ex \in {{0}, {0, 1, 2}, {-1, 1, 3}}}
    \cup {NotchFilterBank(pr[1], pr[2], pr[3], pr[4], 1) : pr \in BankParams}

(***************************************************************************)
(* The history kept for an ArtifactRejector.  It is written from the       *)
(* calls alone (the samples passed and the two parameters), not from the   *)
(* rejector's fields; flagged0 is counted from what the calls returned:    *)
(*   n      process calls since construction or the last reset             *)
(*   over0  how many of them had |sample[0]| above the threshold           *)
(*   flagged0  how many of them returned a true flag for channel 0      *)
(*   since  per channel: 0 if this call found a new artifact outside any   *)
(*          window, k in 1..blanking_samples if it is the k-th call after  *)
(*          such a call, -1 otherwise                                      *)
(*   prev   per channel: since before this call                            *)
(*   good   per channel: the last sample accepted outside a window, or 0   *)
(*   held   per channel: good as it was when the open window began         *)
(* The history kept for an ExponentialSmoother is n alone.                 *)
(* The history kept for an IIRFilter is a second filter built from the     *)
(* same sections, which is given every row one process call at a time:     *)
(*   ref    that filter                                                    *)
(*   outs   what its process calls returned for the rows of the last call  *)
(*          on obj                                                         *)
(***************************************************************************)
GhostInit(o) ==
    IF o.kind = "ArtifactRejector"
    THEN [n |-> 0, over0 |-> 0, flagged0 |-> 0,
          since |-> [ch \in Chan(o.num_channels) |-> -1],
          prev  |-> [ch \in Chan(o.num_channels) |-> -1],
          good  |-> Zeros(o.num_channels),
          held  |-> Zeros(o.num_channels)]
    ELSE IF o.kind = "ExponentialSmoother" THEN [n |-> 0]
    ELSE IF o.kind = "IIRFilter" THEN [ref |-> o, outs |-> << >>]
    ELSE None

GhostWindow(g, B, ch) == g.since[ch] >= 0 /\ g.since[ch] < B

GhostStep(g, T, B, sample) ==
    LET C == DOMAIN g.since
        detect(ch) == ~GhostWindow(g, B, ch) /\ Abs(sample[ch]) > T
    IN  [n     |-> g.n + 1,
         over0 |-> g.over0 + (IF Abs(sample[0]) > T THEN 1 ELSE 0),
         flagged0 |-> g.flagged0,
         since |-> [ch \in C |-> IF GhostWindow(g, B, ch) THEN g.since[ch] + 1
                                 ELSE IF detect(ch) THEN 0 ELSE -1],
         prev  |-> g.since,
         good  |-> [ch \in C |-> IF GhostWindow(g, B, ch) \/ detect(ch)
                                 THEN g.good[ch] ELSE sample[ch]],
         held  |-> [ch \in C |-> IF GhostWindow(g, B, ch) THEN g.held[ch]
                                 ELSE IF detect(ch) THEN g.good[ch] ELSE 0]]

\* filter f given the rows of samples through process, one call per row
RECURSIVE OneByOne(_, _)
OneByOne(f, samples) ==
    IF samples = << >> THEN [ref |-> f, outs |-> << >>]
    ELSE LET r    == IIRFilter_process(f, Head(samples))
             rest == OneByOne(r.self, Tail(samples))
         IN  [ref |-> rest.ref, outs |-> <<r.out>> \o rest.outs]

StageInit ==
    /\ obj \in StageObjects
    /\ fresh = obj
    /\ shadow = None
    /\ ghost = GhostInit(obj)
    /\ SCIPY_AVAILABLE = TRUE
    /\ dsp = None /\ twin = None /\ queue = << >> /\ seqOut = << >>
    /\ op = "init" /\ arg = None /\ ret = None
    /\ calls = 0

\* a process call on obj whose result is r
Called(r, sample) ==
    /\ obj' = r.self
    /\ ret' = r.out
    /\ op' = "process" /\ arg' = sample
    /\ calls' = calls + 1
    /\ UNCHANGED <<pipeVars, fresh, shadow>>

\* a reset call on obj that leaves it as o
WasReset(o) ==
    /\ obj' = o
    /\ ret' = None
    /\ op' = "reset" /\ arg' = None
    /\ ghost' = GhostInit(o)
    /\ UNCHANGED <<pipeVars, fresh, shadow, calls>>

DCProcess(sample) ==
    /\ obj.kind = "DCBlocker" /\ calls < MaxCalls
    /\ Called(DCBlocker_process(obj, sample), sample)
    /\ UNCHANGED ghost

DCReset ==
    /\ obj.kind = "DCBlocker"
    /\ WasReset(DCBlocker_reset(obj))

IIRProcess(sample) ==
    /\ obj.kind = "IIRFilter" /\ calls < MaxCalls
    /\ Called(IIRFilter_process(obj, sample), sample)
    /\ ghost' = OneByOne(ghost.ref, <<sample>>)

IIRProcessBatch(samples) ==
    /\ obj.kind = "IIRFilter" /\ calls + Len(samples) <= MaxCalls
    /\ LET r == IIRFilter_process_batch(obj, samples)
       IN  /\ obj' = r.self
           /\ ret' = r.out
    /\ op' = "process_batch" /\ arg' = samples
    /\ calls' = calls + Len(samples)
    /\ ghost' = OneByOne(ghost.ref, samples)
    /\ UNCHANGED <<pipeVars, fresh, shadow>>

IIRReset ==
    /\ obj.kind = "IIRFilter"
    /\ WasReset(IIRFilter_reset(obj))

NotchProcess(sample) ==
    /\ obj.kind = "NotchFilterBank" /\ calls < MaxCalls
    /\ Called(NotchFilterBank_process(obj, sample), sample)
    /\ UNCHANGED ghost

NotchReset ==
    /\ obj.kind = "NotchFilterBank"
    /\ WasReset(NotchFilterBank_reset(obj))

ARProcess(sample) ==
    /\ obj.kind = "ArtifactRejector" /\ calls < MaxCalls
    /\ Called(ArtifactRejector_process(obj, sample), sample)
    /\ ghost' = [GhostStep(ghost, obj.threshold, obj.blanking_samples, sample)
                    EXCEPT !.flagged0 = @ + (IF ret'.flags[0] THEN 1 ELSE 0)]

ARGetRate ==
    /\ obj.kind = "ArtifactRejector"
    /\ ret' = ArtifactRejector_get_artifact_rate(obj)
    /\ op' = "get_artifact_rate" /\ arg' = None
    /\ UNCHANGED <<pipeVars, stageVars, calls>>

ARReset ==
    /\ obj.kind = "ArtifactRejector"
    /\ WasReset(ArtifactRejector_reset(obj))

CARProcess(sample) ==
    /\ obj.kind = "CommonAverageReference" /\ calls < MaxCalls
    /\ Called([self |-> obj, out |-> CommonAverageReference_process(obj, sample)],
              sample)
    /\ UNCHANGED ghost

SmoothProcess(sample) ==
    /\ obj.kind = "ExponentialSmoother" /\ calls < MaxCalls
    /\ Called(ExponentialSmoother_process(obj, sample), sample)
    /\ ghost' = [n |-> ghost.n + 1]

SmoothReset ==
    /\ obj.kind = "ExponentialSmoother"
    /\ WasReset(ExponentialSmoother_reset(obj))

\* the channel count of the object under test
Width(o) == IF o.kind = "NotchFilterBank"
            THEN (IF o.filters = << >> THEN 1 ELSE o.filters[1].num_channels)
            ELSE o.num_channels

StageNext ==
    \/ \E sample \in Samples(Width(obj)) : DCProcess(sample)
    \/ DCReset
    \/ \E sample \in Samples(Width(obj)) : IIRProcess(sample)
    \/ \E samples \in Batches(Width(obj)) : IIRProcessBatch(samples)
    \/ IIRReset
    \/ \E sample \in Samples(Width(obj)) : NotchProcess(sample)
    \/ NotchReset
    \/ \E sample \in [Chan(Width(obj)) -> ARLevels] : ARProcess(sample)
    \/ ARGetRate
    \/ ARReset
    \/ \E sample \in Samples(Width(obj)) : CARProcess(sample)
    \/ \E sample \in Samples(Width(obj)) : SmoothProcess(sample)
    \/ SmoothReset

StageSpec == StageInit /\ [][StageNext]_vars

(***************************************************************************)
(* ConvergeSpec: one DCBlocker, fed the constant sample ghost.d on every   *)
(* call from its zero state, as test_removes_dc_offset feeds it.  The      *)
(* offsets are large so that the rounding of the products (at most one     *)
(* unit per call) stays far below 5% of the offset.                        *)
(***************************************************************************)
\* the number of samples after which the output is looked at
SettleSamples == 1000

\* dc_block_alpha: the three values the constructor documents, and 0.997
SettleAlphas == {<<990, 1000>>, <<995, 1000>>, <<997, 1000>>, <<999, 1000>>}

\* the constant inputs d, of both signs
SettleOffsets == {-2000000, 2000000}

ConvergeInit ==
    /\ \E n \in ChannelCounts :
          /\ obj \in {DCBlocker(a, n) : a \in SettleAlphas}
          /\ ghost \in [d : [Chan(n) -> SettleOffsets]]
    /\ fresh = obj
    /\ shadow = None
    /\ SCIPY_AVAILABLE = TRUE
    /\ dsp = None /\ twin = None /\ queue = << >> /\ seqOut = << >>
    /\ op = "init" /\ arg = None /\ ret = None
    /\ calls = 0

\* obj.process(d)
DCFeed ==
    /\ calls < MaxSettle
    /\ Called(DCBlocker_process(obj, ghost.d), ghost.d)
    /\ UNCHANGED ghost

ConvergeNext == DCFeed

ConvergeSpec == ConvergeInit /\ [][ConvergeNext]_vars

(***************************************************************************)
(* BridgeSpec: one PiEEGBridgeDSP on its asyncio event loop, with the      *)
(* clients in Clients connected.  The loop runs one coroutine at a time    *)
(* and switches only where the running coroutine awaits, so a step of a    *)
(* coroutine needs the loop (running = Free, or the coroutine itself while *)
(* it is between two awaits).  obj.tasks[i].pc is where stream task i is:  *)
(*   "created"     made by create_task, not yet run                        *)
(*   "raw"         in device.read_sample with the raw channels read        *)
(*   "processing"  in self.dsp.process                                     *)
(*   "sending"     at await asyncio.gather(...)                            *)
(*   "sleeping"    at await asyncio.sleep(0.0001)                          *)
(*   "done"        left the while loop                                     *)
(* obj.handlers[c] is where the handle_client coroutine of client c is:    *)
(*   "idle"        at async for message in websocket                       *)
(*   "in_stats"    in self.device.dsp.get_stats (command get_stats, or     *)
(*                 device.stop_streaming of command stop)                  *)
(*   "replying"    at await websocket.send(...)                            *)
(* ghost counts the samples read (reads) and lists the samples whose       *)
(* process call has begun and has returned (begun, done).                  *)
(***************************************************************************)
Clients == {1, 2}

Free == <<"loop", 0>>
Task(i) == <<"task", i>>
Handler(c) == <<"client", c>>

\* the awaits of the code and one more, inside self.dsp.process
Awaits_in_process(pc) ==
    pc \in {"created", "sending", "sleeping", "done", "idle", "replying", "processing"}

\* whether a coroutine at pc is suspended at an await (or has ended)
Awaits(pc) == pc \in {"created", "sending", "sleeping", "done", "idle", "replying"}

\* who holds the loop once coroutine who has moved to pc
After(pc, who) == IF Awaits(pc) THEN Free ELSE who

\* PiEEGBridgeDSP.__init__ with PiEEGSimulatorDSP.__init__, clients connected
BridgeInit ==
    /\ obj = [kind |-> "PiEEGBridgeDSP", streaming |-> FALSE,
              device |-> [is_streaming |-> FALSE, sample_count |-> 0],
              tasks |-> << >>,
              handlers |-> [c \in Clients |-> "idle"],
              running |-> Free]
    /\ dsp = DSPPipeline(DSPConfig(1, TRUE, FALSE, FALSE, TRUE, 128, 1, FALSE, {}, FALSE),
                         TRUE)
    /\ ghost = [reads |-> 0, begun |-> << >>, done |-> << >>]
    /\ fresh = None /\ shadow = None
    /\ SCIPY_AVAILABLE = TRUE
    /\ twin = None /\ queue = << >> /\ seqOut = << >>
    /\ op = "init" /\ arg = None /\ ret = None
    /\ calls = 0

\* the bridge once stream task i has moved to pc
TaskAt(b, i, pc) ==
    [b EXCEPT !.tasks[i].pc = pc, !.running = After(pc, Task(i))]

\* the bridge once the handler of client c has moved to pc
HandlerAt(b, c, pc) ==
    [b EXCEPT !.handlers[c] = pc, !.running = After(pc, Handler(c))]

\* command start: start the device and create a stream task unless streaming
CmdStart(c) ==
    /\ obj.handlers[c] = "idle" /\ obj.running = Free
    /\ obj.streaming \/ Len(obj.tasks) < MaxTasks
    /\ obj' = HandlerAt(
          IF obj.streaming THEN obj
          ELSE [obj EXCEPT !.device = [is_streaming |-> TRUE, sample_count |-> 0],
                           !.streaming = TRUE,
                           !.tasks = Append(@, [pc |-> "created", raw |-> None])],
          c, "replying")
    /\ UNCHANGED <<pipeVars, fresh, shadow, ghost, op, arg, ret, calls>>

\* command stop: clear self.streaming, then device.stop_streaming up to its
\* call of self.dsp.get_stats
CmdStop(c) ==
    /\ obj.handlers[c] = "idle" /\ obj.running = Free
    /\ obj' = HandlerAt([obj EXCEPT !.streaming = FALSE, !.device.is_streaming = FALSE],
                        c, "in_stats")
    /\ UNCHANGED <<pipeVars, fresh, shadow, ghost, op, arg, ret, calls>>

\* command get_stats up to its call of self.device.dsp.get_stats
CmdGetStats(c) ==
    /\ obj.handlers[c] = "idle" /\ obj.running = Free
    /\ obj' = HandlerAt(obj, c, "in_stats")
    /\ UNCHANGED <<pipeVars, fresh, shadow, ghost, op, arg, ret, calls>>

\* get_stats returns and the handler awaits websocket.send
StatsReturned(c) ==
    /\ obj.handlers[c] = "in_stats" /\ obj.running = Handler(c)
    /\ ret' = DSPPipeline_get_stats(dsp)
    /\ obj' = HandlerAt(obj, c, "replying")
    /\ UNCHANGED <<pipeVars, fresh, shadow, ghost, op, arg, calls>>

\* websocket.send completes and the handler waits for the next message
Replied(c) ==
    /\ obj.handlers[c] = "replying" /\ obj.running = Free
    /\ obj' = HandlerAt(obj, c, "idle")
    /\ UNCHANGED <<pipeVars, fresh, shadow, ghost, op, arg, ret, calls>>

\* stream task i resumes (or starts) and finds self.streaming false
TaskExit(i) ==
    /\ obj.tasks[i].pc \in {"created", "sleeping"}
    /\ obj.running = After(obj.tasks[i].pc, Task(i))
    /\ ~obj.streaming
    /\ obj' = TaskAt(obj, i, "done")
    /\ UNCHANGED <<pipeVars, fresh, shadow, ghost, op, arg, ret, calls>>

\* stream task i resumes, finds self.streaming true, and read_sample returns
\* None (no data ready): on to await asyncio.sleep
TaskNoData(i) ==
    /\ obj.tasks[i].pc \in {"created", "sleeping"}
    /\ obj.running = After(obj.tasks[i].pc, Task(i))
    /\ obj.streaming
    /\ obj' = TaskAt(obj, i, "sleeping")
    /\ UNCHANGED <<pipeVars, fresh, shadow, ghost, op, arg, ret, calls>>

\* stream task i resumes, finds self.streaming true, and read_sample reads
\* the raw channels sample
TaskRead(i, sample) ==
    /\ obj.tasks[i].pc \in {"created", "sleeping"}
    /\ obj.running = After(obj.tasks[i].pc, Task(i))
    /\ obj.streaming
    /\ ghost.reads < MaxCalls
    /\ obj' = TaskAt([obj EXCEPT !.tasks[i].raw = [n |-> ghost.reads + 1, x |-> sample]],
                     i, "raw")
    /\ ghost' = [ghost EXCEPT !.reads = @ + 1]
    /\ UNCHANGED <<pipeVars, fresh, shadow, op, arg, ret, calls>>

\* read_sample calls self.dsp.process(raw_channels)
TaskBegin(i) ==
    /\ obj.tasks[i].pc = "raw"
    /\ obj.running = After("raw", Task(i))
    /\ obj' = TaskAt(obj, i, "processing")
    /\ ghost' = [ghost EXCEPT !.begun = Append(@, obj.tasks[i].raw.n)]
    /\ UNCHANGED <<pipeVars, fresh, shadow, op, arg, ret, calls>>

\* self.dsp.process returns, read_sample counts the sample and returns, and
\* stream_task buffers the result; it then awaits the sends (send) or goes
\* straight to await asyncio.sleep
TaskProcessed(i, send) ==
    /\ obj.tasks[i].pc = "processing"
    /\ obj.running = After("processing", Task(i))
    /\ Returned(DSPPipeline_process(dsp, obj.tasks[i].raw.x))
    /\ obj' = TaskAt([obj EXCEPT !.device.sample_count = @ + 1,
                                 !.tasks[i].raw = None],
                     i, IF send THEN "sending" ELSE "sleeping")
    /\ ghost' = [ghost EXCEPT !.done = Append(@, obj.tasks[i].raw.n)]
    /\ calls' = calls + 1
    /\ UNCHANGED <<SCIPY_AVAILABLE, twin, queue, seqOut, fresh, shadow, op, arg>>

\* the sends complete; the buffers are cleared; on to await asyncio.sleep
TaskSent(i) ==
    /\ obj.tasks[i].pc = "sending"
    /\ obj.running = After("sending", Task(i))
    /\ obj' = TaskAt(obj, i, "sleeping")
    /\ UNCHANGED <<pipeVars, fresh, shadow, ghost, op, arg, ret, calls>>

BridgeNext ==
    \/ \E c \in Clients : CmdStart(c)
    \/ \E c \in Clients : CmdStop(c)
    \/ \E c \in Clients : CmdGetStats(c)
    \/ \E c \in Clients : StatsReturned(c)
    \/ \E c \in Clients : Replied(c)
    \/ \E i \in DOMAIN obj.tasks : TaskExit(i)
    \/ \E i \in DOMAIN obj.tasks : TaskNoData(i)
    \/ \E i \in DOMAIN obj.tasks, sample \in Samples(1) : TaskRead(i, sample)
    \/ \E i \in DOMAIN obj.tasks : TaskBegin(i)
    \/ \E i \in DOMAIN obj.tasks, send \in BOOLEAN : TaskProcessed(i, send)
    \/ \E i \in DOMAIN obj.tasks : TaskSent(i)

BridgeSpec == BridgeInit /\ [][BridgeNext]_vars

(***************************************************************************)
(* PairSpec: two ArtifactRejectors with the same parameters, fed sample    *)
(* sequences that agree on the watched channel ghost.watch and are free    *)
(* on the other channel.  ret holds the two results.                       *)
(***************************************************************************)
PairLevels == {-384, 128, 256}

PairInit ==
    /\ obj \in {ArtifactRejector(256, b, 2) : b \in 0 .. MaxBlanking}
    /\ fresh = obj
    /\ shadow = obj
    /\ ghost \in [watch : Chan(2)]
    /\ SCIPY_AVAILABLE = TRUE
    /\ dsp = None /\ twin = None /\ queue = << >> /\ seqOut = << >>
    /\ op = "init" /\ arg = None /\ ret = None
    /\ calls = 0

\* obj.process(sample) and shadow.process(other)
PairProcess(sample, other) ==
    /\ calls < MaxCalls
    /\ other[ghost.watch] = sample[ghost.watch]
    /\ LET a == ArtifactRejector_process(obj, sample)
           b == ArtifactRejector_process(shadow, other)
       IN  /\ obj' = a.self
           /\ shadow' = b.self
           /\ ret' = [a |-> a.out, b |-> b.out]
    /\ op' = "process" /\ arg' = [a |-> sample, b |-> other]
    /\ calls' = calls + 1
    /\ UNCHANGED <<pipeVars, fresh, ghost>>

PairNext ==
    \E sample, other \in [Chan(2) -> PairLevels] : PairProcess(sample, other)

PairSpec == PairInit /\ [][PairNext]_vars

(***************************************************************************)
(* Claims                                                                  *)
(***************************************************************************)
IsRejector == obj.kind = "ArtifactRejector"

\* C1 (StageSpec): a call that finds a new artifact on a channel outside any
\* window (since = 0) and each of the blanking_samples calls that follow it
\* (since = 1 .. blanking_samples) are flagged and return the last good value
\* the channel had when the artifact was found, whatever the sample; a call
\* that is not among those blanking_samples calls is evaluated normally: it
\* is flagged exactly if its sample's magnitude is above the threshold.
C1_BlankingWindow ==
    (IsRejector /\ op = "process") =>
        \A ch \in Chan(obj.num_channels) :
            /\ ghost.since[ch] >= 0 =>
                  (ret.flags[ch] /\ ret.cleaned[ch] = ghost.held[ch])
            /\ ~(ghost.prev[ch] >= 0 /\ ghost.prev[ch] < obj.blanking_samples) =>
                  (ret.flags[ch] <=> Abs(arg[ch]) > obj.threshold)

\* the call right after a complete window of at least one call, evaluated
\* normally and accepted
C1_Witness ==
    /\ IsRejector /\ op = "process"
    /\ obj.blanking_samples >= 1
    /\ \E ch \in Chan(obj.num_channels) :
          /\ ghost.prev[ch] = obj.blanking_samples
          /\ ~ret.flags[ch]
          /\ ret.cleaned[ch] = arg[ch]
          /\ arg[ch] # 0

\* C6 (StageSpec), as claimed: the artifact rate lies between 0 and 100 percent
C6_RateWithinPercent ==
    IsRejector =>
        LET r == ArtifactRejector_get_artifact_rate(obj)
        IN  0 <= r[1] /\ r[1] <= 100 * r[2]

\* C7 (StageSpec): for one channel and blanking_samples = 0 the rate is
\* 100 * k / n after n > 0 calls of which k had a sample above the threshold,
\* and 0 after no call; its denominator is never 0
C7_RateSingleChannel ==
    (IsRejector /\ obj.num_channels = 1 /\ obj.blanking_samples = 0) =>
        LET r == ArtifactRejector_get_artifact_rate(obj)
        IN  /\ r[2] # 0
            /\ IF ghost.n = 0 THEN r[1] = 0
               ELSE r[1] * ghost.n = 100 * ghost.over0 * r[2]
            /\ op = "get_artifact_rate" => ret = r

C7_Witness ==
    /\ IsRejector /\ obj.num_channels = 1 /\ obj.blanking_samples = 0
    /\ op = "get_artifact_rate"
    /\ ghost.n >= 3 /\ ghost.over0 = 1
    /\ ret = <<100, ghost.n>>

\* C8 (StageSpec): a process call on a rejector returns the sample of every
\* channel that is not blanking and has |sample| <= threshold unchanged and
\* unflagged and stores it as last good; when every channel is such a
\* channel, artifact_count is left as it was
C8_AcceptedSample ==
    [][ (IsRejector /\ calls' = calls + 1) =>
          LET C  == Chan(obj.num_channels)
              ok == {ch \in C : /\ obj.blanking_counter[ch] <= 0
                                /\ Abs(arg'[ch]) <= obj.threshold}
          IN  /\ \A ch \in ok : /\ ret'.cleaned[ch] = arg'[ch]
                                /\ ~ret'.flags[ch]
                                /\ obj'.last_good[ch] = arg'[ch]
              /\ ok = C => obj'.artifact_count = obj.artifact_count
      ]_vars

\* a sample exactly at a positive threshold was accepted
C8_Witness ==
    /\ IsRejector /\ op = "process"
    /\ obj.threshold > 0
    /\ \E ch \in Chan(obj.num_channels) :
          /\ Abs(arg[ch]) = obj.threshold
          /\ ghost.prev[ch] = -1
          /\ ~ret.flags[ch]
          /\ ret.cleaned[ch] = arg[ch]
          /\ obj.last_good[ch] = arg[ch]

\* C9 (PairSpec): fed sequences that agree on the watched channel, the two
\* rejectors agree on that channel's cleaned value, flag, blanking counter and
\* last good value after every call
C9_ChannelIndependent ==
    shadow.kind = "ArtifactRejector" =>
        LET c == ghost.watch
        IN  /\ obj.blanking_counter[c] = shadow.blanking_counter[c]
            /\ obj.last_good[c] = shadow.last_good[c]
            /\ op = "process" =>
                  /\ ret.a.cleaned[c] = ret.b.cleaned[c]
                  /\ ret.a.flags[c] = ret.b.flags[c]

\* the other channel carried an artifact in one run and none in the other,
\* and the watched channel passed unflagged in both
C9_Witness ==
    /\ shadow.kind = "ArtifactRejector" /\ op = "process"
    /\ \E d \in Chan(2) \ {ghost.watch} :
          /\ ret.a.flags[d] /\ ~ret.b.flags[d]
          /\ obj.blanking_counter[d] # shadow.blanking_counter[d]
    /\ ~ret.a.flags[ghost.watch]
    /\ ret.a.cleaned[ghost.watch] = 128

\* C10 (StageSpec): after reset() a stage is as its constructor returned it:
\* DCBlocker has x_prev = y_prev = 0, IIRFilter and NotchFilterBank have every
\* delay value 0, ArtifactRejector has its counters, last good values,
\* artifact_count and total_samples 0, ExponentialSmoother is uninitialized
\* with ema = 0
AllZero(v) == \A ch \in DOMAIN v : v[ch] = 0
DelaysZero(f) == \A ch \in DOMAIN f.zi : \A sec \in DOMAIN f.zi[ch] : f.zi[ch][sec] = <<0, 0>>

C10_ResetIsFresh ==
    op = "reset" =>
        /\ obj = fresh
        /\ obj.kind = "DCBlocker" => (AllZero(obj.x_prev) /\ AllZero(obj.y_prev))
        /\ obj.kind = "IIRFilter" => DelaysZero(obj)
        /\ obj.kind = "NotchFilterBank" =>
              \A i \in DOMAIN obj.filters : DelaysZero(obj.filters[i])
        /\ obj.kind = "ArtifactRejector" =>
              /\ AllZero(obj.blanking_counter) /\ AllZero(obj.last_good)
              /\ obj.artifact_count = 0 /\ obj.total_samples = 0
        /\ obj.kind = "ExponentialSmoother" => (AllZero(obj.ema) /\ ~obj.initialized)

\* a rejector was reset after MaxCalls calls
C10_Witness ==
    /\ op = "reset" /\ IsRejector
    /\ calls = MaxCalls
    /\ obj.total_samples = 0

\* what the stages of the documented chain return for sample x when called
\* in the fixed order DC block, notch, bandpass, CAR, smoothing on pipeline p,
\* a stage that p does not have passing its input on
AfterDC(p, x) ==
    IF IsNone(p.dc_blocker) THEN x ELSE DCBlocker_process(p.dc_blocker, x).out
AfterNotch(p, x) ==
    IF IsNone(p.notch_bank) THEN AfterDC(p, x)
    ELSE NotchFilterBank_process(p.notch_bank, AfterDC(p, x)).out
AfterBandpass(p, x) ==
    IF IsNone(p.bandpass) THEN AfterNotch(p, x)
    ELSE IIRFilter_process(p.bandpass, AfterNotch(p, x)).out
AfterCAR(p, x) ==
    IF IsNone(p.car) THEN AfterBandpass(p, x)
    ELSE CommonAverageReference_process(p.car, AfterBandpass(p, x))
AfterSmooth(p, x) ==
    IF IsNone(p.smoother) THEN AfterCAR(p, x)
    ELSE ExponentialSmoother_process(p.smoother, AfterCAR(p, x)).out

C3_BatchEqualsSequential ==
    (dsp.kind = "DSPPipeline" /\ queue = << >>) =>
        /\ dsp = twin
        /\ op = "process_batch" =>
              /\ Len(seqOut) = Len(arg)
              /\ DOMAIN ret.processed = DOMAIN arg
              /\ DOMAIN ret.flags = DOMAIN arg
              /\ \A i \in DOMAIN arg : /\ ret.processed[i] = seqOut[i].processed
                                       /\ ret.flags[i] = seqOut[i].flags

\* a batch of at least two rows given after a single call, with a rejector
\* that flagged one row of it and not another
C3_Witness ==
    /\ dsp.kind = "DSPPipeline" /\ op = "process_batch" /\ queue = << >>
    /\ Len(arg) >= 2 /\ calls > Len(arg)
    /\ dsp.config.artifact_enabled /\ dsp.config.dc_block_enabled
    /\ dsp.artifact_rejector.artifact_count > 0
    /\ \E i, j \in DOMAIN arg : ret.flags[i][0] /\ ~ret.flags[j][0]
    /\ Len(seqOut) = Len(arg)

\* the states one call of an operation of DSPPipeline (process, process_batch,
\* get_stats) can leave pipeline p in
AfterOneCall(p) ==
    {p}
    \cup {DSPPipeline_process(p, x).self : x \in Samples(p.config.num_channels)}
    \cup {DSPPipeline_process_batch(p, xs).self : xs \in Batches(p.config.num_channels)}

\* C4 (Spec), as claimed: the pipeline offers an operation that returns it to
\* the state it was constructed in
C4_ResetOffered ==
    dsp.kind = "DSPPipeline" =>
        DSPPipeline(dsp.config, SCIPY_AVAILABLE) \in AfterOneCall(dsp)

\* C5 (Spec), as claimed: a pipeline whose config has artifact_threshold <= 0
\* has no artifact rejector and process raises no flag
C5_NonPositiveThresholdDisables ==
    (dsp.kind = "DSPPipeline" /\ op = "process"
        /\ dsp.config.artifact_threshold <= 0) =>
        /\ IsNone(dsp.artifact_rejector)
        /\ \A ch \in Chan(dsp.config.num_channels) : ~ret.flags[ch]

IsSmoother == obj.kind = "ExponentialSmoother"

\* C11 (StageSpec): the first process call on a smoother since its
\* construction or its last reset returns the sample and leaves ema equal to
\* it; every other call returns alpha*sample + (1-alpha)*ema on each channel,
\* ema being the accumulator before the call, and stores that as ema; reset
\* leaves the smoother uninitialized
C11_SeedThenAverage ==
    [][ /\ (IsSmoother /\ calls' = calls + 1) =>
              IF ghost.n = 0
              THEN ret' = arg' /\ obj'.ema = arg'
              ELSE /\ \A ch \in Chan(obj.num_channels) :
                         ret'[ch] = Mul(obj.alpha, arg'[ch])
                                    + Mul(OneMinus(obj.alpha), obj.ema[ch])
                   /\ obj'.ema = ret'
        /\ (IsSmoother /\ op' = "reset") => ~obj'.initialized
      ]_vars

\* at least two calls, then a reset, then a call that returned its sample and
\* seeded ema with it
C11_Witness ==
    /\ IsSmoother /\ op = "process"
    /\ ghost.n = 1 /\ calls >= 3
    /\ ret = arg /\ obj.ema = arg
    /\ \E ch \in Chan(obj.num_channels) : arg[ch] = -2048

IsCAR == obj.kind = "CommonAverageReference"

\* the channels of CAR object o that are not in its exclusion set
Kept(o) == Chan(o.num_channels) \ o.exclude

C13_AllExcludedUnchanged ==
    (IsCAR /\ op = "process" /\ Chan(obj.num_channels) \subseteq obj.exclude) =>
        ret = arg

\* three excluded channels carrying different values
C13_Witness ==
    /\ IsCAR /\ op = "process"
    /\ obj.num_channels = 3 /\ obj.exclude = {0, 1, 2}
    /\ arg[0] # arg[1]
    /\ ret = arg

\* C14 (StageSpec): process on a CAR object built with any exclusion set
\* returns what a CAR object built with only the in-range indices of that set
\* returns
C14_OutOfRangeIgnored ==
    (IsCAR /\ op = "process") =>
        ret = CommonAverageReference_process(
                  CommonAverageReference(obj.num_channels,
                                         obj.exclude \cap Chan(obj.num_channels)),
                  arg)

\* an exclusion set with a negative index, an in-range index and an index
\* past the end, on a sample that the reference changes
C14_Witness ==
    /\ IsCAR /\ op = "process"
    /\ obj.exclude = {-1, 1, 3} /\ obj.num_channels = 3
    /\ arg = (0 :> 128) @@ (1 :> 128) @@ (2 :> -2048)
    /\ ret = (0 :> 1088) @@ (1 :> 1088) @@ (2 :> -1088)

\* a config with an upper band edge at or above Nyquist, a non-positive
\* sample rate or a non-positive channel count
InvalidConfig(cfg) ==
    \/ 2 * cfg.lowpass_freq >= cfg.sample_rate
    \/ cfg.sample_rate <= 0
    \/ cfg.num_channels <= 0

\* C15 (BuildSpec), as claimed: no config with a band cutoff at or above
\* Nyquist, a sample rate <= 0 or a channel count <= 0 yields a pipeline, so
\* none has accepted a process call, whatever the enable flags
C15_InvalidConfigRejected ==
    InvalidConfig(dsp.config) => (dsp.kind = "Raised" /\ op = "init")

\* the stage names in processing order
StageOrder == <<"DC Block", "Notch", "Bandpass", "CAR", "Smooth">>

\* whether config cfg enables the stage called name
Enables(cfg, name) ==
    CASE name = "DC Block" -> cfg.dc_block_enabled
      [] name = "Notch"    -> cfg.notch_enabled
      [] name = "Bandpass" -> cfg.bandpass_enabled
      [] name = "CAR"      -> cfg.car_enabled
      [] name = "Smooth"   -> cfg.smoothing_enabled

\* the subsequence of StageOrder that cfg enables
RECURSIVE EnabledFrom(_, _)
EnabledFrom(cfg, i) ==
    IF i > Len(StageOrder) THEN << >>
    ELSE (IF Enables(cfg, StageOrder[i]) THEN <<StageOrder[i]>> ELSE << >>)
         \o EnabledFrom(cfg, i + 1)

\* C16 (Spec): with scipy available, get_stats returns as filter_chain the
\* enabled stages of DC Block, Notch, Bandpass, CAR, Smooth in that order,
\* as num_filters its length, never lists the artifact rejector, and has the
\* key artifact_rate_percent, holding the rejector's current rate, exactly
\* when the config enables artifact rejection
C16_StatsListStages ==
    (dsp.kind = "DSPPipeline" /\ op = "get_stats" /\ SCIPY_AVAILABLE) =>
        /\ ret.filter_chain = EnabledFrom(dsp.config, 1)
        /\ ret.num_filters = Len(ret.filter_chain)
        /\ \A i \in DOMAIN ret.filter_chain :
              \E j \in DOMAIN StageOrder : ret.filter_chain[i] = StageOrder[j]
        /\ ("artifact_rate_percent" \in DOMAIN ret) <=> dsp.config.artifact_enabled
        /\ dsp.config.artifact_enabled =>
              ret.artifact_rate_percent =
                  ArtifactRejector_get_artifact_rate(dsp.artifact_rejector)

\* stats of a pipeline with three of the five stages and a rejector that has
\* found an artifact
C16_Witness ==
    /\ dsp.kind = "DSPPipeline" /\ op = "get_stats" /\ SCIPY_AVAILABLE
    /\ ret.filter_chain = <<"DC Block", "Bandpass", "Smooth">>
    /\ ret.num_filters = 3
    /\ dsp.config.notch_enabled = FALSE /\ dsp.config.car_enabled = FALSE
    /\ "artifact_rate_percent" \in DOMAIN ret
    /\ ret.artifact_rate_percent[1] > 0

\* the chain without IIR stages: DC blocker, CAR and smoother of pipeline p
\* on sample x, a stage that p does not have passing its input on
AfterCARNoIIR(p, x) ==
    IF IsNone(p.car) THEN AfterDC(p, x)
    ELSE CommonAverageReference_process(p.car, AfterDC(p, x))
AfterSmoothNoIIR(p, x) ==
    IF IsNone(p.smoother) THEN AfterCARNoIIR(p, x)
    ELSE ExponentialSmoother_process(p.smoother, AfterCARNoIIR(p, x)).out

\* C19 (Spec): without scipy the pipeline is constructed; its chain has no
\* Notch and no Bandpass entry even when the config enables them; the DC
\* blocker, CAR, smoother and artifact rejector exist exactly when enabled;
\* and process returns what DC blocker, CAR, smoother and then the rejector
\* make of the sample
C19_WithoutScipy ==
    [][ ~SCIPY_AVAILABLE =>
          /\ dsp.kind = "DSPPipeline"
          /\ \A i \in DOMAIN dsp.filters : dsp.filters[i] \notin {"Notch", "Bandpass"}
          /\ IsNone(dsp.notch_bank) /\ IsNone(dsp.bandpass)
          /\ ~IsNone(dsp.dc_blocker) <=> dsp.config.dc_block_enabled
          /\ ~IsNone(dsp.car) <=> dsp.config.car_enabled
          /\ ~IsNone(dsp.smoother) <=> dsp.config.smoothing_enabled
          /\ ~IsNone(dsp.artifact_rejector) <=> dsp.config.artifact_enabled
          /\ dsp.filters =
                 (IF dsp.config.dc_block_enabled THEN <<"DC Block">> ELSE << >>)
                 \o (IF dsp.config.car_enabled THEN <<"CAR">> ELSE << >>)
                 \o (IF dsp.config.smoothing_enabled THEN <<"Smooth">> ELSE << >>)
          /\ (op' = "process" /\ calls' = calls + 1) =>
                 LET x == AfterSmoothNoIIR(dsp, arg')
                 IN  IF dsp.config.artifact_enabled
                     THEN LET r == ArtifactRejector_process(dsp.artifact_rejector, x).out
                          IN  ret' = [processed |-> r.cleaned, flags |-> r.flags]
                     ELSE ret' = [processed |-> x,
                                  flags |-> NoFlags(dsp.config.num_channels)]
      ]_vars

\* without scipy, a config that enables all six stages gave a pipeline of DC
\* blocker, CAR, smoother and rejector, which has processed two samples and
\* flagged a channel
C19_Witness ==
    /\ dsp.kind = "DSPPipeline" /\ ~SCIPY_AVAILABLE /\ op = "process"
    /\ dsp.config.notch_enabled /\ dsp.config.bandpass_enabled
    /\ dsp.filters = <<"DC Block", "CAR", "Smooth">>
    /\ ~IsNone(dsp.artifact_rejector)
    /\ calls >= 2
    /\ \E ch \in Chan(dsp.config.num_channels) : ret.flags[ch] /\ arg[ch] = 128

IsBank == obj.kind = "NotchFilterBank"

\* the harmonics 1 .. h of fundamental f that lie strictly below fs / 2
BelowNyquist(f, fs, h) == {i \in 1 .. h : 2 * (f * i) < fs}

\* sample x through the first k filters of the list, in list order
InSeries(filters, k, x) ==
    CASE k = 0 -> [out |-> x, filters |-> << >>]
      [] k = 1 -> LET r1 == IIRFilter_process(filters[1], x)
                  IN  [out |-> r1.out, filters |-> <<r1.self>>]
      [] k = 2 -> LET r1 == IIRFilter_process(filters[1], x)
                      r2 == IIRFilter_process(filters[2], r1.out)
                  IN  [out |-> r2.out, filters |-> <<r1.self, r2.self>>]

\* C17 (StageSpec): a bank built for fundamental f, rate fs and h harmonics
\* has as many filters as there are i in 1..h with f*i < fs/2, the k-th
\* being the notch at f*k; process feeds the sample through those filters in
\* that order, each taking the previous one's output, and returns the last
\* output
C17_HarmonicsBelowNyquist ==
    [][ IsBank =>
          /\ \A pr \in BankParams, n \in ChannelCounts :
                fresh = NotchFilterBank(pr[1], pr[2], pr[3], pr[4], n) =>
                   /\ Len(obj.filters) = Cardinality(BelowNyquist(pr[1], pr[2], pr[3]))
                   /\ \A k \in DOMAIN obj.filters :
                         obj.filters[k].sos = create_notch(pr[1] * k, pr[2], pr[4], n).sos
          /\ calls' = calls + 1 =>
                /\ ret' = InSeries(obj.filters, Len(obj.filters), arg').out
                /\ obj'.filters = InSeries(obj.filters, Len(obj.filters), arg').filters
      ]_vars

\* 60 Hz at fs = 250 with 4 harmonics gave the two notches at 60 and 120 Hz,
\* and both have filtered two samples
C17_Witness ==
    /\ IsBank /\ op = "process" /\ calls >= 2
    /\ fresh = NotchFilterBank(60, 250, 4, 30, 1)
    /\ Len(obj.filters) = 2
    /\ obj.filters[1].sos = create_notch(60, 250, 30, 1).sos
    /\ obj.filters[2].sos = create_notch(120, 250, 30, 1).sos
    /\ obj.filters[1].zi # fresh.filters[1].zi
    /\ obj.filters[2].zi # fresh.filters[2].zi
    /\ ret # arg

IsIIR == obj.kind = "IIRFilter"

\* C18 (StageSpec): after any sequence of process and process_batch calls on
\* an IIR filter, the rows the last call returned are what a filter of the
\* same sections returns for them when it is given every row of the sequence
\* through process, one at a time, and the two filters hold the same delay
\* values
C18_BatchEqualsSingle ==
    IsIIR =>
        /\ obj.zi = ghost.ref.zi
        /\ op = "process" => ret = ghost.outs[1]
        /\ op = "process_batch" =>
              /\ Len(ret) = Len(arg)
              /\ ret = ghost.outs

\* a batch of two different rows given to the two-section filter after a
\* single call, the filter's delay values being nonzero
C18_Witness ==
    /\ IsIIR /\ op = "process_batch"
    /\ Len(obj.sos) = 2 /\ obj.num_channels = 2
    /\ Len(arg) = 2 /\ calls > Len(arg)
    /\ arg[1] # arg[2]
    /\ ret[1] # ret[2]
    /\ ret = ghost.outs
    /\ obj.zi # fresh.zi

\* C20 (Spec): on every process call of a pipeline built for N channels, the
\* sample and the output of every stage of the chain (a stage the pipeline
\* does not have passing its input on) have exactly the indices 0..N-1, and
\* so do the cleaned vector and the flag vector returned, whose entries are
\* booleans; N is the same after the call
C20_VectorLength ==
    [][ (dsp.kind = "DSPPipeline" /\ op' = "process" /\ calls' = calls + 1) =>
          LET N == Chan(dsp.config.num_channels)
          IN  /\ DOMAIN arg' = N
              /\ DOMAIN AfterDC(dsp, arg') = N
              /\ DOMAIN AfterNotch(dsp, arg') = N
              /\ DOMAIN AfterBandpass(dsp, arg') = N
              /\ DOMAIN AfterCAR(dsp, arg') = N
              /\ DOMAIN AfterSmooth(dsp, arg') = N
              /\ DOMAIN ret'.processed = N
              /\ DOMAIN ret'.flags = N
              /\ \A ch \in N : ret'.flags[ch] \in BOOLEAN
              /\ DOMAIN dsp'.artifact_flags = N
              /\ dsp'.config.num_channels = dsp.config.num_channels
      ]_vars

\* the third call on a two-channel pipeline without a rejector returned two
\* values and two flags
C20_Witness ==
    /\ dsp.kind = "DSPPipeline" /\ op = "process" /\ calls >= 3
    /\ dsp.config.num_channels = 2
    /\ ~dsp.config.artifact_enabled
    /\ Len(dsp.filters) >= 4
    /\ DOMAIN ret.processed = {0, 1}
    /\ ret.flags = (0 :> FALSE) @@ (1 :> FALSE)

\* C21 (Spec): on a process call of a pipeline without artifact rejection
\* every flag returned is false; with artifact rejection the flag of a
\* channel is true exactly if the rejector was blanking the channel or the
\* magnitude of the chain's output for this call's sample is above the
\* threshold, whatever the flags of the call before were; the pipeline keeps
\* the flags returned as artifact_flags
C21_FlagsRecomputed ==
    [][ (dsp.kind = "DSPPipeline" /\ op' = "process" /\ calls' = calls + 1) =>
          /\ dsp'.artifact_flags = ret'.flags
          /\ \A ch \in Chan(dsp.config.num_channels) :
                IF ~dsp.config.artifact_enabled THEN ~ret'.flags[ch]
                ELSE ret'.flags[ch] <=>
                        \/ dsp.artifact_rejector.blanking_counter[ch] > 0
                        \/ Abs(AfterSmooth(dsp, arg')[ch])
                              > dsp.artifact_rejector.threshold
      ]_vars

\* a single-channel pipeline whose rejector has flagged an earlier call
\* returned no flag for this call
C21_Witness ==
    /\ dsp.kind = "DSPPipeline" /\ op = "process"
    /\ dsp.config.num_channels = 1 /\ dsp.config.artifact_enabled
    /\ dsp.config.artifact_threshold > 0
    /\ dsp.artifact_rejector.artifact_count > 0
    /\ dsp.artifact_rejector.total_samples >= 2
    /\ ~ret.flags[0] /\ ~dsp.artifact_flags[0]

\* C22 (ConvergeSpec), as claimed: for every alpha from 0.99 to 0.999 and
\* every constant input d # 0, the output of the 1000th and of every later
\* call is below 5% of |d| on each channel
C22_ConvergesForEveryAlpha ==
    (op = "process" /\ calls >= SettleSamples) =>
        \A ch \in Chan(obj.num_channels) : 20 * Abs(ret[ch]) < Abs(ghost.d[ch])

\* C22 (ConvergeSpec), amended: for alpha from 0.99 to 0.997 and a constant
\* input d # 0, the output of the 1000th and of every later call is below 5%
\* of |d| on each channel
C22_ConvergesBelowPole ==
    (op = "process" /\ calls >= SettleSamples
        /\ 1000 * obj.alpha[1] <= 997 * obj.alpha[2]) =>
        \A ch \in Chan(obj.num_channels) : 20 * Abs(ret[ch]) < Abs(ghost.d[ch])

\* at alpha = 0.997 the 1000th output of two channels with opposite offsets
\* is between 4.5% and 5% of the offset
C22_Witness ==
    /\ op = "process" /\ calls = SettleSamples
    /\ obj.alpha = <<997, 1000>> /\ obj.num_channels = 2
    /\ ghost.d[0] = 2000000 /\ ghost.d[1] = -2000000
    /\ ret[0] > 90000 /\ ret[0] < 100000
    /\ ret[1] < -90000 /\ ret[1] > -100000

IsBridge == obj.kind = "PiEEGBridgeDSP"

\* the coroutines that are inside a call on the pipeline
InPipeline ==
    {Task(i) : i \in {j \in DOMAIN obj.tasks : obj.tasks[j].pc = "processing"}}
    \cup {Handler(c) : c \in {d \in Clients : obj.handlers[d] = "in_stats"}}

\* C23 (BridgeSpec): at most one coroutine is inside a process or get_stats
\* call on the pipeline, and it is the one that holds the event loop; the
\* samples whose process call has begun are the samples read so far, in the
\* order read, less at most the one just read; the calls have returned in
\* that order
C23_CallsSerialized ==
    IsBridge =>
        /\ Cardinality(InPipeline) <= 1
        /\ \A who \in InPipeline : obj.running = who
        /\ \A k \in DOMAIN ghost.begun : ghost.begun[k] = k
        /\ \A k \in DOMAIN ghost.done : ghost.done[k] = k
        /\ Len(ghost.done) <= Len(ghost.begun)
        /\ Len(ghost.begun) <= ghost.reads
        /\ ghost.reads <= Len(ghost.begun) + 1

\* two stream tasks are live, one is inside process with the second sample,
\* and a client's get_stats command is waiting for the loop
C23_Witness ==
    /\ IsBridge
    /\ Len(obj.tasks) = 2
    /\ obj.tasks[1].pc = "sleeping" /\ obj.tasks[2].pc = "processing"
    /\ ghost.done = <<1>>
    /\ \E c \in Clients : obj.handlers[c] = "replying"

\* the stream tasks that have entered their loop and not left it
LiveTasks == {i \in DOMAIN obj.tasks : obj.tasks[i].pc \notin {"created", "done"}}

\* C30 (BridgeSpec), as claimed: at most one stream task loop is live
C30_OneStreamTask ==
    IsBridge => Cardinality(LiveTasks) <= 1

\* what the documented order 1 DC blocking, 2 notch, 3 bandpass, 4 artifact
\* rejection, 5 CAR, 6 smoothing returns on pipeline p for sample x: the
\* rejector thresholds the bandpass output, CAR and smoothing run on the
\* cleaned vector
RejectedAfterBandpass(p, x) ==
    ArtifactRejector_process(p.artifact_rejector, AfterBandpass(p, x)).out
CAROf(p, v) ==
    IF IsNone(p.car) THEN v ELSE CommonAverageReference_process(p.car, v)
SmoothOf(p, v) ==
    IF IsNone(p.smoother) THEN v ELSE ExponentialSmoother_process(p.smoother, v).out
DocumentedOrder(p, x) ==
    [processed |-> SmoothOf(p, CAROf(p, RejectedAfterBandpass(p, x).cleaned)),
     flags |-> RejectedAfterBandpass(p, x).flags]

\* C24 (Spec), as claimed: with artifact rejection enabled together with CAR
\* or smoothing, process returns what the documented order returns: the
\* rejector's flags for the bandpass output, and CAR and smoothing applied to
\* the rejector's cleaned vector
C24_RejectionPrecedesCAR ==
    [][ ( /\ op' = "process" /\ calls' = calls + 1
          /\ dsp.config.artifact_enabled
          /\ (dsp.config.car_enabled \/ dsp.config.smoothing_enabled) )
        => ret' = DocumentedOrder(dsp, arg')
      ]_vars

\* C25 (StageSpec), as claimed: for one channel the rate after n > 0 calls is
\* 100 * f / n, f being the number of calls that returned a true flag, those
\* of a blanking window included
C25_RateCountsFlagged ==
    (IsRejector /\ obj.num_channels = 1 /\ ghost.n > 0) =>
        LET r == ArtifactRejector_get_artifact_rate(obj)
        IN  r[1] * ghost.n = 100 * ghost.flagged0 * r[2]

\* C26 (Spec): no step of process, process_batch or get_stats changes a field
\* of the pipeline's config or its list of stages
C26_ConfigAndStagesFixed ==
    [][ /\ dsp'.config = dsp.config
        /\ dsp'.filters = dsp.filters
        /\ twin'.config = twin.config
        /\ twin'.filters = twin.filters
      ]_vars

\* a pipeline of all five stages and the rejector after process calls that
\* counted an artifact and a get_stats call
C26_Witness ==
    /\ dsp.kind = "DSPPipeline" /\ op = "get_stats"
    /\ calls = MaxCalls
    /\ dsp.filters = <<"DC Block", "Notch", "Bandpass", "CAR", "Smooth">>
    /\ dsp.config.artifact_enabled
    /\ dsp.artifact_rejector.artifact_count > 0
    /\ ret.num_filters = 5

\* C27 (StageSpec): every step leaves every channel's blanking counter within
\* 0 .. blanking_samples; the counter rises only in a process call that finds
\* a sample above the threshold on a channel whose counter is 0, and then to
\* blanking_samples; a process call that finds it positive lowers it by 1
C27_CounterWithinWindow ==
    [][ IsRejector =>
          \A ch \in Chan(obj.num_channels) :
              LET c == obj.blanking_counter[ch]
                  d == obj'.blanking_counter[ch]
              IN  /\ c \in 0 .. obj.blanking_samples
                  /\ d \in 0 .. obj.blanking_samples
                  /\ d > c => /\ calls' = calls + 1
                              /\ c = 0
                              /\ Abs(arg'[ch]) > obj.threshold
                              /\ d = obj.blanking_samples
                  /\ (calls' = calls + 1 /\ c > 0) => d = c - 1
      ]_vars

\* a window of at least one call has been opened and has run down to 0
C27_Witness ==
    /\ IsRejector /\ op = "process"
    /\ obj.blanking_samples >= 1
    /\ \E ch \in Chan(obj.num_channels) :
          /\ ghost.since[ch] = obj.blanking_samples
          /\ obj.blanking_counter[ch] = 0

\* C28 (StageSpec): every value a process call returns has magnitude at most
\* the threshold: an unflagged channel returns its sample, which is within
\* the threshold, a flagged channel returns the last sample accepted before
\* it, or 0 if none has been accepted
C28_OutputWithinThreshold ==
    (IsRejector /\ op = "process" /\ obj.threshold >= 0) =>
        \A ch \in Chan(obj.num_channels) :
            /\ Abs(ret.cleaned[ch]) <= obj.threshold
            /\ Abs(ghost.good[ch]) <= obj.threshold
            /\ ret.cleaned[ch] = ghost.good[ch]
            /\ ~ret.flags[ch] => ret.cleaned[ch] = arg[ch]

\* an artifact seen before any good sample was replaced by 0, and a later
\* artifact was replaced by a sample accepted in between
C28_Witness ==
    /\ IsRejector /\ op = "process" /\ obj.threshold > 0
    /\ ghost.n = 3
    /\ \E ch \in Chan(obj.num_channels) :
          /\ ret.flags[ch]
          /\ Abs(arg[ch]) > obj.threshold
          /\ ret.cleaned[ch] # 0
          /\ ghost.since[ch] = 0

\* C29 (StageSpec): a process call changes nothing for a channel whose
\* counter is positive but the counter, which it lowers by 1: the channel
\* returns its last good value, flagged, and keeps it whatever the sample;
\* artifact_count grows by the number of channels whose counter is 0 and
\* whose sample is above the threshold, and by nothing else
C29_BlankingChangesNothing ==
    [][ (IsRejector /\ calls' = calls + 1) =>
          LET C == Chan(obj.num_channels)
              blanking == {ch \in C : obj.blanking_counter[ch] > 0}
              found == {ch \in C \ blanking : Abs(arg'[ch]) > obj.threshold}
          IN  /\ \A ch \in blanking :
                    /\ obj'.last_good[ch] = obj.last_good[ch]
                    /\ obj'.blanking_counter[ch] = obj.blanking_counter[ch] - 1
                    /\ ret'.flags[ch]
                    /\ ret'.cleaned[ch] = obj.last_good[ch]
              /\ obj'.artifact_count = obj.artifact_count + Cardinality(found)
      ]_vars

\* a sample above the threshold arrived during a window: the window ended
\* and the artifact was not counted again
C29_Witness ==
    /\ IsRejector /\ op = "process"
    /\ obj.num_channels = 1 /\ obj.blanking_samples = 1
    /\ ghost.since[0] = 1
    /\ Abs(arg[0]) > obj.threshold
    /\ obj.blanking_counter[0] = 0
    /\ obj.artifact_count = 1

====
